---- MODULE Spec2Model ----
(***************************************************************************)
(* Model of src/src/dataset.py: the geometric / Bernoulli noise-mask       *)
(* generator (geom_noise_mask_single, noise_mask), the magnitude           *)
(* compensation (compensate_masking), the padding-mask builder             *)
(* (padding_mask) and the batch collation (collate_unsuperv).              *)
(*                                                                         *)
(* Three entry points are modelled, each with its own specification:       *)
(*   SpecPad     - a direct call of padding_mask(lengths, max_len)         *)
(*   SpecCollate - a call of collate_unsuperv(data, max_len, compensation) *)
(*   SpecMask    - a call of noise_mask(X, masking_ratio, lm, mode, ...),  *)
(*                 stepping through geom_noise_mask_single's loop          *)
(*                                                                         *)
(* Conventions.  Python's None is the empty tuple <<>> and a present value *)
(* v is <<v>>.  Arrays are functions over 0..n-1, as in the source.  Real  *)
(* numbers are exact fractions <<numerator, denominator>> with a positive  *)
(* denominator.  A raised exception is recorded by its Python type name.   *)
(***************************************************************************)
EXTENDS Integers, Sequences, FiniteSets, TLC

VARIABLES
    \* ---- padding_mask(lengths, max_len) ----
    pm_lengths,        \* argument `lengths`: int16 tensor, one length per sample
    pm_max_len,        \* argument `max_len`: None or an integer
    pm_ret,            \* returned (batch_size, max_len) boolean tensor
    pm_err,            \* "" or the exception raised
    pm_pc,             \* "idle" | "call" | "done" | "error"
    \* ---- collate_unsuperv(data, max_len, mask_compensation) ----
    data,              \* argument `data`: one record [X, mask, label] per sample
    c_max_len,         \* argument `max_len`: None or an integer
    mask_compensation, \* argument `mask_compensation`
    c_ret,             \* returned [X, targets, target_masks, padding_masks, labels]
    c_err,             \* "" or the exception raised
    c_pc,              \* "idle" | "call" | "done" | "error"
    \* ---- noise_mask(X, masking_ratio, lm, mode, distribution, exclude_feats) ----
    X_shape,           \* X.shape = <<seq_length, feat_dim>>
    masking_ratio,     \* argument `masking_ratio` (a fraction)
    lm,                \* argument `lm` (mean masked-run length)
    mode,              \* "separate" | "concurrent"
    distribution,      \* "geometric" | "bernoulli"
    exclude_feats,     \* None or <<set of feature indices>>
    mask,              \* noise_mask's local `mask`, and its return value
    m,                 \* noise_mask's loop variable over the feature dimension
    keep_mask,         \* geom_noise_mask_single's local `keep_mask`
    p,                 \* geom_noise_mask_single's local `p` = [p_m, p_u]
    state,             \* geom_noise_mask_single's local `state`
    i,                 \* geom_noise_mask_single's loop variable
    draw,              \* the latest value returned by np.random.rand()
    nm_err,            \* "" or the exception raised
    nm_pc              \* position of the noise_mask call

padVars == <<pm_lengths, pm_max_len, pm_ret, pm_err, pm_pc>>
collateVars == <<data, c_max_len, mask_compensation, c_ret, c_err, c_pc>>
maskVars == <<X_shape, masking_ratio, lm, mode, distribution, exclude_feats,
              mask, m, keep_mask, p, state, i, draw, nm_err, nm_pc>>
vars == <<padVars, collateVars, maskVars>>

(***************************************************************************)
(* Bounds of the model.                                                    *)
(***************************************************************************)
MaxPadBatch == 3   \* padding_mask: at most this many lengths
MaxPadLen == 5     \* padding_mask: lengths and small max_len values up to this
MaxBatch == 2      \* collate: at most this many samples in a batch
MaxLen == 3        \* collate: sequence lengths 0..MaxLen
MaxD == 4          \* collate: feature dimensions 1..MaxD
MaxCells == 4      \* collate: at most this many (time, feature) cells in a batch
MaxMaxLen == 4     \* collate: explicit max_len values 1..MaxMaxLen
MaxSeqLen == 3     \* noise_mask: X.shape[0] in 1..MaxSeqLen
MaxFeat == 2       \* noise_mask: X.shape[1] in 1..MaxFeat
MaxLm == 2         \* noise_mask: lm in -1..MaxLm
RatioDen == 3      \* noise_mask: masking_ratio in {-1/RatioDen, ..., (RatioDen+1)/RatioDen}
DrawDen == 4       \* np.random.rand() returns one of 0/DrawDen .. (DrawDen-1)/DrawDen

(***************************************************************************)
(* Program constants.                                                      *)
(***************************************************************************)
\* Largest value of torch.int16, the dtype of the lengths tensor.
Int16Max == 32767

None == <<>>
Some(v) == <<v>>
IsNone(o) == o = <<>>
Val(o) == o[1]

Min2(a, b) == IF a < b THEN a ELSE b
Max2(a, b) == IF a > b THEN a ELSE b

\* Python's max() over a non-empty list of integers.
MaxOf(f) == CHOOSE v \in {f[k] : k \in DOMAIN f} : \A k \in DOMAIN f : f[k] <= v

(***************************************************************************)
(* padding_mask                                                            *)
(***************************************************************************)
\* .type_as(lengths): an int64 position converted to int16 wraps modulo 2^16.
ToInt16(v) ==
    LET r == v % (2 * (Int16Max + 1))
    IN  IF r > Int16Max THEN r - 2 * (Int16Max + 1) ELSE r

\* `max_len or lengths.max_val()`: None and 0 are both falsy, and a tensor has
\* no attribute max_val, so the right operand raises AttributeError.
PaddingMaskNeedsDefault(max_len) == IsNone(max_len) \/ Val(max_len) = 0

\* torch.arange(0, max_len).type_as(lengths).repeat(batch_size, 1)
\*      .lt(lengths.unsqueeze(1))
PaddingMaskRows(lengths, max_len) ==
    [b \in DOMAIN lengths |->
        [t \in 0..(max_len - 1) |-> ToInt16(t) < lengths[b]]]

\* padding_mask(lengths, max_len): [err |-> exception or "", ret |-> the mask].
padding_mask(lengths, max_len) ==
    IF PaddingMaskNeedsDefault(max_len)
    THEN [err |-> "AttributeError", ret |-> <<>>]
    ELSE [err |-> "", ret |-> PaddingMaskRows(lengths, Val(max_len))]

(***************************************************************************)
(* Real-valued tensor entries: exact fractions.                            *)
(***************************************************************************)
Real(n) == <<n, 1>>
Zero == Real(0)
REq(a, b) == a[1] * b[2] = b[1] * a[2]
RLess(a, b) == a[1] * b[2] < b[1] * a[2]
\* a / n for an integer n > 0, and n * a
RDivInt(a, n) == <<a[1], a[2] * n>>
RMulInt(n, a) == <<n * a[1], a[2]>>
\* x * b for a boolean b (True is 1, False is 0)
RMulBool(a, b) == IF b THEN a ELSE Zero

\* Number of True entries of a boolean vector: torch.sum(mask, dim=-1).
CountTrue(row) == Cardinality({f \in DOMAIN row : row[f]})

(***************************************************************************)
(* compensate_masking                                                      *)
(***************************************************************************)
\* Mutant of NumActive: the count of active features is not clamped to 1.
NumActiveUnclamped(row) == CountTrue(row)

\* num_active = torch.max(torch.sum(mask, dim=-1), ones): at least 1.
NumActive(row) == Max2(CountTrue(row), 1)

\* X.shape[-1] * X / num_active, over a (batch, time, feature) tensor.
compensate_masking(X, msk) ==
    [b \in DOMAIN X |->
        [t \in DOMAIN X[b] |->
            [f \in DOMAIN X[b][t] |->
                RDivInt(RMulInt(Cardinality(DOMAIN X[b][t]), X[b][t][f]),
                        NumActive(msk[b][t]))]]]

(***************************************************************************)
(* collate_unsuperv                                                        *)
(***************************************************************************)
SeqLength(sample) == sample.shape[1]
FeatDim(sample) == sample.shape[2]

\* lengths = [X.shape[0] for X in features]
Lengths(d) == [b \in DOMAIN d |-> SeqLength(d[b])]

\* if max_len is None: max_len = max(lengths)
CollateMaxLen(d, max_len) ==
    IF IsNone(max_len) THEN MaxOf(Lengths(d)) ELSE Val(max_len)

\* end = min(lengths[i], max_len)
RowEnd(len, max_len) == Min2(len, max_len)

\* Column of a (end, D_i) source read when it is assigned to an (end, D)
\* slice: a source with a single column is broadcast over the D columns.
BroadcastCol(srcDim, f) == IF srcDim = 1 THEN 0 ELSE f

\* X[i, :end, :] = features[i][:end, :] raises RuntimeError when the source
\* has neither the batch's feature dimension (features[0].shape[-1]) nor 1.
ShapeMismatch(d) ==
    \E b \in DOMAIN d : FeatDim(d[b]) \notin {FeatDim(d[0]), 1}

\* torch.tensor(lengths, dtype=torch.int16) raises RuntimeError on a length
\* that does not fit int16.
LengthOverflow(d) == \E b \in DOMAIN d : SeqLength(d[b]) > Int16Max

\* Mutant of PadFeatures: a clipped sample keeps its last rows, not its first.
PadFeaturesTail(d, max_len) ==
    [b \in DOMAIN d |->
        [t \in 0..(max_len - 1) |->
            [f \in 0..(FeatDim(d[0]) - 1) |->
                IF t < RowEnd(SeqLength(d[b]), max_len)
                THEN d[b].X[SeqLength(d[b]) - RowEnd(SeqLength(d[b]), max_len) + t]
                           [BroadcastCol(FeatDim(d[b]), f)]
                ELSE Zero]]]

\* X = torch.zeros(batch_size, max_len, D); X[i, :end, :] = features[i][:end, :]
PadFeatures(d, max_len) ==
    [b \in DOMAIN d |->
        [t \in 0..(max_len - 1) |->
            [f \in 0..(FeatDim(d[0]) - 1) |->
                IF t < RowEnd(SeqLength(d[b]), max_len)
                THEN d[b].X[t][BroadcastCol(FeatDim(d[b]), f)]
                ELSE Zero]]]

\* target_masks = zeros_like(X, bool); target_masks[i, :end, :] = masks[i][:end, :]
PadMasks(d, max_len) ==
    [b \in DOMAIN d |->
        [t \in 0..(max_len - 1) |->
            [f \in 0..(FeatDim(d[0]) - 1) |->
                IF t < RowEnd(SeqLength(d[b]), max_len)
                THEN d[b].mask[t][BroadcastCol(FeatDim(d[b]), f)]
                ELSE FALSE]]]

\* X = X * target_masks
MaskInput(X, msk) ==
    [b \in DOMAIN X |->
        [t \in DOMAIN X[b] |->
            [f \in DOMAIN X[b][t] |-> RMulBool(X[b][t][f], msk[b][t][f])]]]

\* Mutant of InvertMasks: the final inversion is left out.
InvertMasksMissing(msk) == msk

\* target_masks = ~target_masks
InvertMasks(msk) ==
    [b \in DOMAIN msk |->
        [t \in DOMAIN msk[b] |->
            [f \in DOMAIN msk[b][t] |-> ~msk[b][t][f]]]]

\* if mask_compensation: X = compensate_masking(X, target_masks)
MaybeCompensate(X, msk, compensation) ==
    IF compensation THEN compensate_masking(X, msk) ELSE X

NoBatch == [X |-> <<>>, targets |-> <<>>, target_masks |-> <<>>,
            padding_masks |-> <<>>, labels |-> <<>>]

\* The tail of collate_unsuperv, from `targets = X.clone()` to the return, on
\* the padded features and masks and the outcome of the padding_mask call.
CollateTail(d, padded, tmasks, pmask, compensation) ==
    IF pmask.err # ""
    THEN [err |-> pmask.err, ret |-> NoBatch]
    ELSE [err |-> "",
          ret |-> [X |-> MaybeCompensate(MaskInput(padded, tmasks), tmasks,
                                         compensation),
                   targets |-> padded,
                   target_masks |-> InvertMasks(tmasks),
                   padding_masks |-> pmask.ret,
                   labels |-> [b \in DOMAIN d |-> d[b].label]]]

\* collate_unsuperv once max_len is settled.
CollateWithLen(d, ml, compensation) ==
    IF ShapeMismatch(d) \/ LengthOverflow(d)
    THEN [err |-> "RuntimeError", ret |-> NoBatch]
    ELSE CollateTail(d, PadFeatures(d, ml), PadMasks(d, ml),
                     padding_mask(Lengths(d), Some(ml)), compensation)

\* The whole of collate_unsuperv: [err |-> exception or "", ret |-> the batch].
collate_unsuperv(d, max_len, compensation) ==
    CollateWithLen(d, CollateMaxLen(d, max_len), compensation)

(***************************************************************************)
(* geom_noise_mask_single and noise_mask                                   *)
(***************************************************************************)
\* Fractions in lowest sign form (positive denominator).
RNorm(a) == IF a[2] < 0 THEN <<-a[1], -a[2]>> ELSE a
RMul(a, b) == <<a[1] * b[1], a[2] * b[2]>>
RSub(a, b) == <<a[1] * b[2] - b[1] * a[2], a[2] * b[2]>>
\* a / b for b # 0
RDiv(a, b) == RNorm(<<a[1] * b[2], a[2] * b[1]>>)
RIsZero(a) == a[1] = 0

\* The values np.random.rand() can return: a grid over [0, 1).
Draws == {<<k, DrawDen>> : k \in 0..(DrawDen - 1)}

\* p_m = 1 / lm; p_u = p_m * masking_ratio / (1 - masking_ratio); p = [p_m, p_u].
\* Either division raises ZeroDivisionError on a zero divisor.
StoppingProbsFail(run_len, ratio) ==
    run_len = 0 \/ RIsZero(RSub(Real(1), ratio))

StoppingProbs(run_len, ratio) ==
    LET p_m == RDiv(Real(1), Real(run_len))
        p_u == RDiv(RMul(p_m, ratio), RSub(Real(1), ratio))
    IN  <<p_m, p_u>>

\* state = int(np.random.rand() > masking_ratio): 0 is masking, 1 is keeping.
InitialState(u, ratio) == IF RLess(ratio, u) THEN 1 ELSE 0

\* Mutant of StopProb: the two stopping probabilities are taken in the wrong order.
StopProbSwapped(pp, st) == pp[2 - st]

\* p[state], with p a Python list indexed from 0.
StopProb(pp, st) == pp[st + 1]

\* if np.random.rand() < p[state]: state = 1 - state
NextState(u, pp, st) == IF RLess(u, StopProb(pp, st)) THEN 1 - st ELSE st

\* Mutant of IsExcluded: the exclusion set is never consulted.
IsExcludedIgnored(ex, col) == FALSE

\* not (exclude_feats is None or m not in exclude_feats)
IsExcluded(ex, col) == ~IsNone(ex) /\ col \in Val(ex)

SeqLen == X_shape[1]
NumFeat == X_shape[2]

\* np.ones(X.shape, dtype=bool)
OnesMask == [t \in 0..(SeqLen - 1) |-> [f \in 0..(NumFeat - 1) |-> TRUE]]

\* np.random.choice([True, False], p=(1 - masking_ratio, masking_ratio)) raises
\* ValueError when a probability is negative.
ChoiceFails(ratio) == RLess(ratio, Zero) \/ RLess(Real(1), ratio)

\* The values one np.random.choice draw can give: True iff the uniform draw is
\* below the first cumulative probability, 1 - masking_ratio.
ChoiceOutcomes(ratio) == {RLess(u, RSub(Real(1), ratio)) : u \in Draws}

GeomLocalsCleared ==
    /\ keep_mask' = <<>> /\ p' = <<>> /\ state' = 0 /\ i' = 0 /\ draw' = None

maskArgs == <<X_shape, masking_ratio, lm, mode, distribution, exclude_feats>>
geomLocals == <<keep_mask, p, state, i, draw>>

\* distribution == "geometric", mode == "separate": mask = np.ones(X.shape)
SeparateBegin ==
    /\ nm_pc = "start" /\ distribution = "geometric" /\ mode = "separate"
    /\ mask' = OnesMask /\ m' = 0 /\ nm_pc' = "column"
    /\ UNCHANGED <<maskArgs, geomLocals, nm_err, padVars, collateVars>>

\* for m in range(X.shape[1]): an excluded column is passed over
ColumnSkip ==
    /\ nm_pc = "column" /\ m < NumFeat /\ IsExcluded(exclude_feats, m)
    /\ m' = m + 1
    /\ UNCHANGED <<maskArgs, geomLocals, mask, nm_err, nm_pc, padVars, collateVars>>

\* ... any other column calls geom_noise_mask_single(X.shape[0], lm, masking_ratio)
ColumnCall ==
    /\ nm_pc = "column" /\ m < NumFeat /\ ~IsExcluded(exclude_feats, m)
    /\ nm_pc' = "geom_init"
    /\ UNCHANGED <<maskArgs, geomLocals, mask, m, nm_err, padVars, collateVars>>

\* the loop over the columns is over: return mask
SeparateReturn ==
    /\ nm_pc = "column" /\ m = NumFeat
    /\ nm_pc' = "done"
    /\ UNCHANGED <<maskArgs, geomLocals, mask, m, nm_err, padVars, collateVars>>

\* distribution == "geometric", any other mode: one call for the whole sample
ConcurrentCall ==
    /\ nm_pc = "start" /\ distribution = "geometric" /\ mode # "separate"
    /\ nm_pc' = "geom_init"
    /\ UNCHANGED <<maskArgs, geomLocals, mask, m, nm_err, padVars, collateVars>>

\* geom_noise_mask_single up to its loop: keep_mask, p and the initial state
GeomInit ==
    /\ nm_pc = "geom_init"
    /\ IF StoppingProbsFail(lm, masking_ratio)
       THEN /\ nm_err' = "ZeroDivisionError" /\ nm_pc' = "error"
            /\ mask' = <<>>
            /\ UNCHANGED geomLocals
       ELSE /\ keep_mask' = [t \in 0..(SeqLen - 1) |-> TRUE]
            /\ p' = StoppingProbs(lm, masking_ratio)
            /\ \E u \in Draws :
                 /\ draw' = Some(u)
                 /\ state' = InitialState(u, masking_ratio)
            /\ i' = 0
            /\ nm_pc' = "geom_loop"
            /\ UNCHANGED <<mask, nm_err>>
    /\ UNCHANGED <<maskArgs, m, padVars, collateVars>>

\* one iteration of `for i in range(L)`: write, draw, maybe flip
GeomStep ==
    /\ nm_pc = "geom_loop" /\ i < SeqLen
    /\ keep_mask' = [keep_mask EXCEPT ![i] = (state = 1)]
    /\ \E u \in Draws :
         /\ draw' = Some(u)
         /\ state' = NextState(u, p, state)
    /\ i' = i + 1
    /\ UNCHANGED <<maskArgs, p, mask, m, nm_err, nm_pc, padVars, collateVars>>

\* return keep_mask, to mask[:, m] = ... of the loop over the columns
GeomReturnColumn ==
    /\ nm_pc = "geom_loop" /\ i = SeqLen /\ mode = "separate"
    /\ mask' = [t \in 0..(SeqLen - 1) |-> [mask[t] EXCEPT ![m] = keep_mask[t]]]
    /\ m' = m + 1
    /\ nm_pc' = "column"
    /\ GeomLocalsCleared
    /\ UNCHANGED <<maskArgs, nm_err, padVars, collateVars>>

\* return keep_mask, to np.tile(np.expand_dims(..., 1), X.shape[1]); return mask
GeomReturnTile ==
    /\ nm_pc = "geom_loop" /\ i = SeqLen /\ mode # "separate"
    /\ mask' = [t \in 0..(SeqLen - 1) |-> [f \in 0..(NumFeat - 1) |-> keep_mask[t]]]
    /\ nm_pc' = "done"
    /\ GeomLocalsCleared
    /\ UNCHANGED <<maskArgs, m, nm_err, padVars, collateVars>>

\* any other distribution, mode == "separate": np.random.choice(size=X.shape)
BernoulliSeparate ==
    /\ nm_pc = "start" /\ distribution # "geometric" /\ mode = "separate"
    /\ IF ChoiceFails(masking_ratio)
       THEN nm_err' = "ValueError" /\ nm_pc' = "error" /\ mask' = <<>>
       ELSE /\ mask' \in [0..(SeqLen - 1) ->
                             [0..(NumFeat - 1) -> ChoiceOutcomes(masking_ratio)]]
            /\ nm_pc' = "done" /\ nm_err' = ""
    /\ UNCHANGED <<maskArgs, geomLocals, m, padVars, collateVars>>

\* any other distribution and mode: np.tile(np.random.choice(size=(L, 1)), D)
BernoulliConcurrent ==
    /\ nm_pc = "start" /\ distribution # "geometric" /\ mode # "separate"
    /\ IF ChoiceFails(masking_ratio)
       THEN nm_err' = "ValueError" /\ nm_pc' = "error" /\ mask' = <<>>
       ELSE /\ \E col \in [0..(SeqLen - 1) -> ChoiceOutcomes(masking_ratio)] :
                 mask' = [t \in 0..(SeqLen - 1) |->
                             [f \in 0..(NumFeat - 1) |-> col[t]]]
            /\ nm_pc' = "done" /\ nm_err' = ""
    /\ UNCHANGED <<maskArgs, geomLocals, m, padVars, collateVars>>

(***************************************************************************)
(* Idle values of the three groups of variables.                           *)
(***************************************************************************)
PadIdle ==
    /\ pm_lengths = <<>> /\ pm_max_len = None /\ pm_ret = <<>>
    /\ pm_err = "" /\ pm_pc = "idle"

CollateIdle ==
    /\ data = <<>> /\ c_max_len = None /\ mask_compensation = FALSE
    /\ c_ret = NoBatch /\ c_err = "" /\ c_pc = "idle"

MaskIdle ==
    /\ X_shape = <<0, 0>> /\ masking_ratio = Zero /\ lm = 0
    /\ mode = "" /\ distribution = "" /\ exclude_feats = None
    /\ mask = <<>> /\ m = 0 /\ keep_mask = <<>> /\ p = <<>> /\ state = 0
    /\ i = 0 /\ draw = None /\ nm_err = "" /\ nm_pc = "idle"

(***************************************************************************)
(* SpecPad: one call padding_mask(lengths, max_len).                       *)
(***************************************************************************)
\* Lengths held by an int16 tensor of 1..MaxPadBatch positive entries.
PadLengthVectors ==
    UNION {[0..(n - 1) -> 1..MaxPadLen] : n \in 1..MaxPadBatch}

\* max_len: None, a small value, or a value around the int16 range.
PadMaxLens ==
    {None} \cup {Some(n) : n \in (1..MaxPadLen) \cup {Int16Max + 1, Int16Max + 2}}

InitPad ==
    /\ pm_lengths \in PadLengthVectors
    /\ pm_max_len \in PadMaxLens
    /\ pm_ret = <<>> /\ pm_err = "" /\ pm_pc = "call"
    /\ CollateIdle /\ MaskIdle

PaddingMaskCall ==
    /\ pm_pc = "call"
    /\ \E r \in {padding_mask(pm_lengths, pm_max_len)} :
           /\ pm_ret' = r.ret
           /\ pm_err' = r.err
           /\ pm_pc' = IF r.err = "" THEN "done" ELSE "error"
    /\ UNCHANGED <<pm_lengths, pm_max_len, collateVars, maskVars>>

NextPad == PaddingMaskCall

SpecPad == InitPad /\ [][NextPad]_vars

(***************************************************************************)
(* SpecCollate: one call collate_unsuperv(data, max_len, mask_compensation)*)
(***************************************************************************)
\* Value of feature f at time t of sample b: distinct, non-zero, both signs.
FeatureValue(b, t, f) ==
    LET v == 1 + f + MaxD * t + MaxD * (MaxLen + 1) * b
    IN  Real(IF (t + f) % 2 = 0 THEN v ELSE -v)

Shapes == (0..MaxLen) \X (1..MaxD)

RECURSIVE CellsBefore(_, _)
\* Number of cells of the samples 0..b-1 of a list of shapes.
CellsBefore(sh, b) ==
    IF b = 0 THEN 0 ELSE CellsBefore(sh, b - 1) + sh[b - 1][1] * sh[b - 1][2]

\* Sample b of shape sh[b], its mask read from the bit vector `bits`.
MakeSample(sh, bits, b) ==
    [shape |-> sh[b],
     X     |-> [t \in 0..(sh[b][1] - 1) |->
                  [f \in 0..(sh[b][2] - 1) |-> FeatureValue(b, t, f)]],
     mask  |-> [t \in 0..(sh[b][1] - 1) |->
                  [f \in 0..(sh[b][2] - 1) |->
                      bits[CellsBefore(sh, b) + t * sh[b][2] + f]]],
     label |-> b]

CollateMaxLens == {None} \cup {Some(n) : n \in 1..MaxMaxLen}

InitCollate ==
    /\ \E n \in 1..MaxBatch :
         \E sh \in [0..(n - 1) -> Shapes] :
            /\ CellsBefore(sh, n) <= MaxCells
            /\ \E bits \in [0..(CellsBefore(sh, n) - 1) -> BOOLEAN] :
                 data = [b \in 0..(n - 1) |-> MakeSample(sh, bits, b)]
    /\ c_max_len = None /\ mask_compensation = FALSE
    /\ c_ret = NoBatch /\ c_err = "" /\ c_pc = "call"
    /\ PadIdle /\ MaskIdle

\* collate_unsuperv(data, max_len, mask_compensation) on the gathered batch.
Collate ==
    /\ c_pc = "call"
    /\ \E max_len \in CollateMaxLens, compensation \in BOOLEAN :
         \E r \in {collate_unsuperv(data, max_len, compensation)} :
             /\ c_max_len' = max_len
             /\ mask_compensation' = compensation
             /\ c_ret' = r.ret
             /\ c_err' = r.err
             /\ c_pc' = IF r.err = "" THEN "done" ELSE "error"
    /\ UNCHANGED <<data, padVars, maskVars>>

NextCollate == Collate

SpecCollate == InitCollate /\ [][NextCollate]_vars

(***************************************************************************)
(* Properties of padding_mask (SpecPad).                                   *)
(***************************************************************************)
PadReturned == pm_pc = "done"
PadFinished == pm_pc \in {"done", "error"}

\* pm_ret is a (batch_size, n) boolean array with entry [b, t] = (t < lengths[b]).
PadResultIs(n) ==
    /\ DOMAIN pm_ret = DOMAIN pm_lengths
    /\ \A b \in DOMAIN pm_lengths :
         /\ DOMAIN pm_ret[b] = 0..(n - 1)
         /\ \A t \in 0..(n - 1) : pm_ret[b][t] = (t < pm_lengths[b])

\* C4: padding_mask called with positive lengths and an explicit positive
\* max_len returns the boolean (B, max_len) array with result[i,t] = (t < lengths[i])
\* for every t in [0, max_len).
C4_PaddingMaskExplicit ==
    (PadFinished /\ ~IsNone(pm_max_len)) =>
        (PadReturned /\ PadResultIs(Val(pm_max_len)))

CollateReturned == c_pc = "done"
CollateFinished == c_pc \in {"done", "error"}

Batch == DOMAIN data
\* The max_len of the call, given or defaulted to the longest sample.
ClaimMaxLen ==
    IF IsNone(c_max_len)
    THEN CHOOSE v \in {SeqLength(data[b]) : b \in Batch} :
            \A b \in Batch : SeqLength(data[b]) <= v
    ELSE Val(c_max_len)
\* Number of rows sample b contributes: min(L_b, max_len).
ClaimEnd(b) ==
    IF SeqLength(data[b]) < ClaimMaxLen THEN SeqLength(data[b]) ELSE ClaimMaxLen
ClaimTimes == 0..(ClaimMaxLen - 1)
ClaimFeats == 0..(FeatDim(data[0]) - 1)
OwnFeats(b) == 0..(FeatDim(data[b]) - 1)

\* A batch collate must reject: a zero-length sample, or feature dimensions
\* that differ between samples.
InvalidBatch ==
    \E b \in Batch :
        SeqLength(data[b]) = 0 \/ FeatDim(data[b]) # FeatDim(data[0])

\* C1: in a batch returned for valid samples every padding position t,
\* min(L_i, max_len) <= t < max_len, has padding_mask[i,t] false and
\* target_mask[i,t,f] false for every feature f.
C1_PaddingNeverTarget ==
    (CollateReturned /\ ~InvalidBatch) =>
        \A b \in Batch : \A t \in ClaimTimes :
            t >= ClaimEnd(b) =>
                /\ ~c_ret.padding_masks[b][t]
                /\ \A f \in ClaimFeats : ~c_ret.target_masks[b][t][f]

HasBatchShape(T) ==
    /\ DOMAIN T = Batch
    /\ \A b \in Batch :
         /\ DOMAIN T[b] = ClaimTimes
         /\ \A t \in ClaimTimes : DOMAIN T[b][t] = ClaimFeats

\* C3: input, target and target_mask have shape (B, max_len, D) with max_len
\* defaulting to max(L_i); sample i contributes its first min(L_i, max_len) rows:
\* there target = X_i and (without compensation) input = X_i where the mask is
\* true, else 0; beyond them target and input are zero; a sample with
\* L_i >= max_len has an all-true padding_mask row.
C3_ShapeAndRows ==
    CollateReturned =>
        /\ HasBatchShape(c_ret.X)
        /\ HasBatchShape(c_ret.targets)
        /\ HasBatchShape(c_ret.target_masks)
        /\ \A b \in Batch : \A t \in ClaimTimes :
             /\ t < ClaimEnd(b) =>
                  \A f \in OwnFeats(b) :
                     /\ c_ret.targets[b][t][f] = data[b].X[t][f]
                     /\ ~mask_compensation =>
                          c_ret.X[b][t][f] =
                             IF data[b].mask[t][f] THEN data[b].X[t][f] ELSE Zero
             /\ t >= ClaimEnd(b) =>
                  \A f \in ClaimFeats :
                     /\ c_ret.targets[b][t][f] = Zero
                     /\ REq(c_ret.X[b][t][f], Zero)
             /\ SeqLength(data[b]) >= ClaimMaxLen => c_ret.padding_masks[b][t]

\* C3 witness: a returned batch holding a truncated sample (L_i > max_len) and
\* a padded one (L_i < max_len).
C3_Witness ==
    /\ CollateReturned
    /\ \E b \in Batch : SeqLength(data[b]) > ClaimMaxLen
    /\ \E b \in Batch : SeqLength(data[b]) < ClaimMaxLen /\ SeqLength(data[b]) > 0

\* Observed-feature count at (b, t), in the polarity before the final inversion.
ObservedCount(b, t) ==
    Cardinality({f \in ClaimFeats : ~c_ret.target_masks[b][t][f]})
\* The masked (not yet compensated) input value at (b, t, f).
MaskedValue(b, t, f) ==
    IF c_ret.target_masks[b][t][f] THEN Zero ELSE c_ret.targets[b][t][f]

\* C5: with compensation every input value is the masked value times
\* D / max(k, 1), k the observed-feature count of its position; a position with
\* k = 0 is an all-zero row, and nothing is divided by zero.
C5_Compensation ==
    (CollateReturned /\ mask_compensation) =>
        \A b \in Batch : \A t \in ClaimTimes : \A f \in ClaimFeats :
            LET k == ObservedCount(b, t)
                d == IF k > 1 THEN k ELSE 1
            IN  /\ c_ret.X[b][t][f][2] # 0
                /\ c_ret.X[b][t][f][1] * d =
                       FeatDim(data[0]) * MaskedValue(b, t, f)[1] * c_ret.X[b][t][f][2]
                /\ k = 0 => c_ret.X[b][t][f][1] = 0

\* C5 witness: a compensated batch with D = 4 holding a position with k = 2
\* (a surviving value doubled) and a position with k = 0.
C5_Witness ==
    /\ CollateReturned /\ mask_compensation /\ FeatDim(data[0]) = 4
    /\ \E b \in Batch : \E t \in ClaimTimes : \E f \in ClaimFeats :
         /\ ObservedCount(b, t) = 2
         /\ ~c_ret.target_masks[b][t][f]
         /\ REq(c_ret.X[b][t][f], RMulInt(2, c_ret.targets[b][t][f]))
    /\ \E b \in Batch : \E t \in ClaimTimes : ObservedCount(b, t) = 0

\* C8: on a batch with a zero-length sample or mismatched feature dimensions
\* collate fails (the claim: with InvalidArgument) and returns no batch; it
\* never returns a batch built from such input.
C8_InvalidBatchRejected ==
    (CollateFinished /\ InvalidBatch) => (c_pc = "error" /\ c_ret = NoBatch)

(***************************************************************************)
(* SpecMask: one call noise_mask(X, masking_ratio, lm, mode, distribution, *)
(* exclude_feats).                                                         *)
(***************************************************************************)
MaskingRatios == {<<n, RatioDen>> : n \in (-1)..(RatioDen + 1)}
ExcludeArgs == {None} \cup {Some(S) : S \in SUBSET (0..MaxFeat)}

InitMask ==
    /\ X_shape \in (1..MaxSeqLen) \X (1..MaxFeat)
    /\ masking_ratio \in MaskingRatios
    /\ lm \in (-1)..MaxLm
    /\ mode \in {"separate", "concurrent"}
    /\ distribution \in {"geometric", "bernoulli"}
    /\ exclude_feats \in ExcludeArgs
    /\ mask = <<>> /\ m = 0 /\ keep_mask = <<>> /\ p = <<>> /\ state = 0
    /\ i = 0 /\ draw = None /\ nm_err = "" /\ nm_pc = "start"
    /\ PadIdle /\ CollateIdle

NextMask ==
    \/ SeparateBegin \/ ColumnSkip \/ ColumnCall \/ SeparateReturn
    \/ ConcurrentCall \/ GeomInit \/ GeomStep
    \/ GeomReturnColumn \/ GeomReturnTile
    \/ BernoulliSeparate \/ BernoulliConcurrent

SpecMask == InitMask /\ [][NextMask]_vars

(***************************************************************************)
(* Properties of noise_mask and geom_noise_mask_single (SpecMask).         *)
(***************************************************************************)
MaskReturned == nm_pc = "done"
MaskFinished == nm_pc \in {"done", "error"}
InGeom == nm_pc \in {"geom_init", "geom_loop"}
GeomSeparate == distribution = "geometric" /\ mode = "separate"
\* The local `mask` of the separate geometric branch exists.
MaskAllocated == nm_pc \in {"column", "geom_init", "geom_loop", "done"}
Excluded == IF IsNone(exclude_feats) THEN {} ELSE Val(exclude_feats)

\* C6: under mode=separate, distribution=geometric every column listed in
\* exclude_feats is all-true in the mask, while it is built and when it is
\* returned, and a single_sequence_mask run is only ever made for a column
\* that is not excluded.
C6_ExcludedColumnsKept ==
    (GeomSeparate /\ MaskAllocated) =>
        /\ \A j \in Excluded \cap (0..(NumFeat - 1)) :
              \A t \in 0..(SeqLen - 1) : mask[t][j]
        /\ InGeom => (m \in 0..(NumFeat - 1) /\ m \notin Excluded)

\* C6 witness: a returned separate geometric mask with an excluded column and
\* a masked position in a column that is not excluded.
C6_Witness ==
    /\ MaskReturned /\ GeomSeparate
    /\ Excluded \cap (0..(NumFeat - 1)) # {}
    /\ \E f \in (0..(NumFeat - 1)) \ Excluded : \E t \in 0..(SeqLen - 1) : ~mask[t][f]

\* Arguments outside the mask generator's preconditions.
InvalidMaskArgs ==
    \/ ~(RLess(Zero, masking_ratio) /\ RLess(masking_ratio, Real(1)))
    \/ distribution = "geometric" /\ lm <= 0
    \/ \E j \in Excluded : j \notin 0..(NumFeat - 1)

\* C7: a masking_ratio outside (0,1), a mean_run_length <= 0 or an excluded
\* index outside [0, D) makes the call fail with an argument error (any
\* exception but a division by zero is accepted as one) and return no mask.
\* Stated for the geometric distribution, whose chain parameters are the ones
\* undefined at masking_ratio 0 and 1.
C7_InvalidArgsRejected ==
    (MaskFinished /\ distribution = "geometric" /\ InvalidMaskArgs) =>
        (nm_pc = "error" /\ nm_err # "ZeroDivisionError" /\ mask = <<>>)

\* The stopping probabilities of the claim: p_mask = 1/mean_run_length when
\* masking (state 0), p_keep = p_mask * ratio / (1 - ratio) when keeping (1).
ClaimStop(st) ==
    LET pmask == RNorm(<<1, lm>>)
        pkeep == RNorm(<<masking_ratio[1],
                         lm * (masking_ratio[2] - masking_ratio[1])>>)
    IN  IF st = 0 THEN pmask ELSE pkeep
StateOf(b) == IF b THEN 1 ELSE 0
ForcedFlip(b) == ~RLess(ClaimStop(StateOf(b)), Real(1))
NeverFlips(b) == ~RLess(Zero, ClaimStop(StateOf(b)))

\* A boolean sequence v[0..n-1] whose runs obey the stopping probabilities: a
\* state that stops with probability >= 1 is left after one position, a state
\* that stops with probability <= 0 is never left.
RunsObey(v, n) ==
    \A k \in 0..(n - 2) :
        /\ ForcedFlip(v[k]) => v[k + 1] # v[k]
        /\ NeverFlips(v[k]) => v[k + 1] = v[k]

\* One position of the walk: exactly position i is written, with the state it
\* is visited in, and the state carried on differs iff the draw made after the
\* write is below the stopping probability of the state at i.
WalkStepOK ==
    (nm_pc = "geom_loop" /\ nm_pc' = "geom_loop" /\ i' # i) =>
        /\ i' = i + 1
        /\ keep_mask'[i] = (state = 1)
        /\ \A k \in (0..(SeqLen - 1)) \ {i} : keep_mask'[k] = keep_mask[k]
        /\ (state' # state) <=> RLess(Val(draw'), ClaimStop(state))
\* The walk is returned only after exactly L positions have been written.
WalkLeftAtEnd ==
    (nm_pc = "geom_loop" /\ nm_pc' # "geom_loop") => i = SeqLen
\* The written prefix, continued by the carried state, obeys the run rules; so
\* does every generated column of a returned geometric mask.
WalkRunsOK ==
    /\ nm_pc = "geom_loop" =>
         /\ i <= SeqLen
         /\ RunsObey([k \in 0..i |-> IF k < i THEN keep_mask[k] ELSE state = 1],
                     i + 1)
    /\ (MaskReturned /\ distribution = "geometric") =>
         \A f \in 0..(NumFeat - 1) :
            (mode # "separate" \/ f \notin Excluded) =>
                RunsObey([t \in 0..(SeqLen - 1) |-> mask[t][f]], SeqLen)

\* C10: geom_noise_mask_single writes exactly L values in a left-to-right walk
\* carrying one state bit: mask[i] is true iff position i is visited in state
\* keeping, the state flips iff the draw after the write is below the stopping
\* probability of the current state; hence a run of a state with stopping
\* probability >= 1 has length 1 and a state with probability <= 0 is never left.
C10_LeftToRightWalk ==
    /\ [][WalkStepOK /\ WalkLeftAtEnd]_vars
    /\ []WalkRunsOK

\* C10 witness: with mean_run_length 1 (p_mask = 1) a finished walk that kept
\* twice, then masked, and was forced back to keeping.
C10_Witness ==
    /\ nm_pc = "geom_loop" /\ i = 3 /\ SeqLen = 3 /\ lm = 1
    /\ RLess(ClaimStop(1), Real(1))
    /\ keep_mask[0] /\ keep_mask[1] /\ ~keep_mask[2] /\ state = 1

====
